---------------------------- MODULE Spec2Model ----------------------------
(***************************************************************************)
(* A model of the axis-generation routines of adel:                        *)
(*   adel/plantgen_extensions.py  cardinalities, modalities, axis_list,    *)
(*                                _parent, plant_list                      *)
(*   adel/plantgen/tools.py       decide_child_cohorts,                    *)
(*                                decide_time_of_death, fit_poly           *)
(*                                                                         *)
(* Real numbers are modelled as exact rationals (an integer numerator over *)
(* a positive integer denominator), so int(), round() and the comparisons  *)
(* are computed as they are on the real values.  Every routine has its own *)
(* specification (SpecCard, SpecAxis, SpecPlant, SpecCohort, SpecDeath,    *)
(* SpecFit); the variables of the other routines stay at their idle value. *)
(***************************************************************************)
EXTENDS Integers, Sequences, FiniteSets, TLC

VARIABLES
    \* cardinalities(proba, n)
    proba, n, card, card_pc,
    \* axis_list(emited_cohorts, theoretical_probabilities, nplants)
    df, axis_nplants, cohort_cardinalities, axis, axis_pc,
    \* plant_list(axis, nplants)
    plants, placed, plant_pc,
    \* decide_child_cohorts(decide_child_cohort_probabilities, parent_cohort_index, first_child_delay)
    decide_child_cohort_probabilities, parent_cohort_index, first_child_delay,
    stack, child_cohort_numbers, considered, cohort_pc,
    \* decide_time_of_death(max_axes_number, min_axes_number, TT_em_phytomer1, TT_bolting, TT_flowering)
    max_axes_number, min_axes_number, TT_em_phytomer1, TT_bolting, TT_flowering,
    tt, remaining_axes_number, T_em_leaf1_tuples, T_stop_axis_tuples,
    TT_stop_axis_list, death_pc,
    \* fit_poly(x_meas_array, y_meas_array, fixed_coefs, a_starting_estimate)
    meas, fixed_coefs, a_starting_estimate, fit_result, fit_pc

cardVars == <<proba, n, card, card_pc>>
axisVars == <<df, axis_nplants, cohort_cardinalities, axis, axis_pc>>
plantVars == <<plants, placed, plant_pc>>
cohortVars == <<decide_child_cohort_probabilities, parent_cohort_index, first_child_delay,
                stack, child_cohort_numbers, considered, cohort_pc>>
deathVars == <<max_axes_number, min_axes_number, TT_em_phytomer1, TT_bolting, TT_flowering,
               tt, remaining_axes_number, T_em_leaf1_tuples, T_stop_axis_tuples,
               TT_stop_axis_list, death_pc>>
fitVars == <<meas, fixed_coefs, a_starting_estimate, fit_result, fit_pc>>
vars == <<cardVars, axisVars, plantVars, cohortVars, deathVars, fitVars>>

\* The variables a routine leaves alone: those of the other routines.
notCard == <<axisVars, plantVars, cohortVars, deathVars, fitVars>>
notAxis == <<cardVars, plantVars, cohortVars, deathVars, fitVars>>
notPlant == <<cardVars, axisVars, cohortVars, deathVars, fitVars>>
notCohort == <<cardVars, axisVars, plantVars, deathVars, fitVars>>
notDeath == <<cardVars, axisVars, plantVars, cohortVars, fitVars>>
notFit == <<cardVars, axisVars, plantVars, cohortVars, deathVars>>

(***************************************************************************)
(* Bounds of the model.                                                    *)
(***************************************************************************)
MaxKeys == 3        \* categories of a proportion mapping are 1..MaxKeys
MaxWeight == 4      \* a proportion is weight / (sum of the weights), weight in 0..MaxWeight
MaxN == 6           \* cardinalities is called with n in 0..MaxN
FracDen == 2        \* total_axis and nff are multiples of 1/FracDen
MaxTaNum == 3       \* total_axis is k/FracDen, k in 0..MaxTaNum
MaxPlants == 2      \* nplants in 1..MaxPlants
MaxTok == 2         \* the dot-separated parts of an axis name are 1..MaxTok
MaxDepth == 2       \* an axis name has 1..MaxDepth parts
MaxAxisList == 3    \* plant_list is given at most MaxAxisList axes
MaxCohortIdx == 4   \* the keys of the cohort probabilities are among 1..MaxCohortIdx
PScale == 2         \* a probability or a random draw is k/PScale
MaxParent == 1      \* the top call's parent_cohort_index is in DefaultParent..MaxParent
MaxDelay == 3       \* the top call's first_child_delay is in 1..MaxDelay
MaxAxes == 3        \* max_axes_number and min_axes_number are in 0..MaxAxes
MaxEmLen == 3       \* TT_em_phytomer1 has at most MaxEmLen entries
MaxEm == 2          \* an emergence time is in 0..MaxEm
TimeDen == 2        \* TT_bolting and TT_flowering are multiples of 1/TimeDen
MaxTime == 5        \* TT_bolting and TT_flowering are k/TimeDen, k in 0..MaxTime
MaxSamples == 2     \* fit_poly is given at most MaxSamples measured points
MaxMeas == 2        \* a measured coordinate is in 0..MaxMeas
MaxFixed == 1       \* fixed_coefs has at most MaxFixed coefficients, each 0 or 1

(***************************************************************************)
(* Generic helpers.                                                        *)
(***************************************************************************)
EmptyMap == [k \in {} |-> 0]

RECURSIVE SumOver(_, _)
SumOver(f, S) ==
    IF S = {} THEN 0
    ELSE LET k == CHOOSE x \in S : TRUE IN f[k] + SumOver(f, S \ {k})

\* sum(d.values())
SumValues(f) == SumOver(f, DOMAIN f)

\* The orders in which a dict holding the keys S may be iterated.
Orders(S) ==
    {s \in [1..Cardinality(S) -> S] : \A i, j \in 1..Cardinality(S) : i # j => s[i] # s[j]}

\* int(x) of the rational num/den (den > 0): truncation towards zero.
IntOf(num, den) == IF num >= 0 THEN num \div den ELSE -((-num) \div den)

(***************************************************************************)
(* cardinalities(proba, n).  proba[k] is the weight of category k; its     *)
(* proportion is proba[k] / SumValues(proba), so the proportions sum to 1. *)
(***************************************************************************)
\* card = {k: int(v*n) for k, v in proba.iteritems()}
FloorCard(p, nn) == [k \in DOMAIN p |-> IntOf(p[k] * nn, SumValues(p))]

\* sorted(proba.iteritems(), key=operator.itemgetter(1), reverse=True): the
\* keys by descending proportion; keys of equal proportion keep the order
\* of the dict's iteration, which is any order.
\* (the same sort without reverse=True, which C8 tells apart)
SortedPAscending(p) ==
    {s \in Orders(DOMAIN p) : \A i, j \in 1..Len(s) : i < j => p[s[i]] <= p[s[j]]}

SortedP(p) ==
    {s \in Orders(DOMAIN p) : \A i, j \in 1..Len(s) : i < j => p[s[i]] >= p[s[j]]}

\* missing = int(n - sum(card.values()))
\* (no leftover unit handed out, which C1 tells apart)
MissingNone(c, nn) == 0

Missing(c, nn) == nn - SumValues(c)

\* The whole call, for the sorted order sorted_p.  new = [sorted_p[i][0] for
\* i in range(missing)] raises IndexError when missing > len(sorted_p).
Cardinalities(p, nn, sorted_p) ==
    LET c0 == FloorCard(p, nn)
        missing == Missing(c0, nn)
        new == {sorted_p[i] : i \in 1..missing}
        c1 == [k \in DOMAIN p |-> IF k \in new THEN c0[k] + 1 ELSE c0[k]]
        kept == {k \in DOMAIN p : c1[k] > 0}
    IN  IF missing > Len(sorted_p)
        THEN [err |-> TRUE, card |-> EmptyMap]
        ELSE [err |-> FALSE, card |-> [k \in kept |-> c1[k]]]

\* The proportion mappings of the model: a weight for every key of a
\* non-empty set of categories, not all zero.
ProbaInputs ==
    UNION {{p \in [K -> 0..MaxWeight] : SumValues(p) > 0} : K \in (SUBSET (1..MaxKeys)) \ {{}}}

InitCard ==
    /\ proba \in ProbaInputs
    /\ n \in 0..MaxN
    /\ card = EmptyMap
    /\ card_pc = "call"

IdleCard ==
    /\ proba = EmptyMap
    /\ n = 0
    /\ card = EmptyMap
    /\ card_pc = "idle"

CallCardinalities ==
    /\ card_pc = "call"
    /\ \E sorted_p \in SortedP(proba) :
          LET r == Cardinalities(proba, n, sorted_p)
          IN  /\ card' = r.card
              /\ card_pc' = IF r.err THEN "error" ELSE "done"
    /\ UNCHANGED <<proba, n>>
    /\ UNCHANGED notCard

NextCard == CallCardinalities


(***************************************************************************)
(* modalities(nff) for nff = num/den >= 0: the weights of m1 and m2 over   *)
(* the denominator den, p = m1 + 1 - nff and 1 - p.                        *)
(***************************************************************************)
Modalities(num, den) ==
    LET m1 == IntOf(num, den)
        m2 == IntOf(num, den) + 1
        p == (m1 + 1) * den - num
    IN  [m \in {m1, m2} |-> IF m = m1 THEN p ELSE den - p]

(***************************************************************************)
(* axis_list(emited_cohorts, theoretical_probabilities, nplants).  Every   *)
(* comprehension of the function is over the cohorts and treats each       *)
(* cohort on its own, so the model unfolds them one cohort per step: the   *)
(* row of the cohort (total_axis, nff) and its joint probabilities are     *)
(* drawn when the cohort is treated, df holds the rows treated so far.     *)
(***************************************************************************)
\* round(x) of the rational num/den >= 0 (Python 2: halves away from zero)
\* (int() in place of round(), which C7 tells apart)
RoundDown(num, den) == num \div den

Round(num, den) == (2 * num + den) \div (2 * den)

\* flat_list(map(lambda x: [x[0]] * int(x[1]), v.items())), for the order
\* of v.items()
RECURSIVE FlatList(_, _)
FlatList(v, order) ==
    IF order = <<>> THEN <<>>
    ELSE [i \in 1..v[Head(order)] |-> Head(order)] \o FlatList(v, Tail(order))

\* zip(a, b)
Zip(a, b) ==
    LET len == IF Len(a) <= Len(b) THEN Len(a) ELSE Len(b)
    IN  [i \in 1..len |-> <<a[i], b[i]>>]

\* The cohorts of the table, and the nff of a row as its numerator over
\* FracDen.
CohortIds == {1, 2}

NffInputs == {2, 3, 5}

\* The joint probabilities of one cohort, {rank: probability}; the empty
\* mapping is a cohort without an entry in theoretical_probabilities.
JointInputs ==
    {EmptyMap, (1 :> 0) @@ (2 :> 0), (1 :> 1), (1 :> 1) @@ (2 :> 1), (1 :> 2) @@ (2 :> 1),
     (1 :> 1) @@ (2 :> 2) @@ (3 :> 1)}

\* axis_proba[k] exists (line 67) and its normalisation divides by a
\* non-zero sum (line 64)
JointUsable(jp) == DOMAIN jp # {} /\ SumValues(jp) > 0

InitAxis ==
    /\ df = EmptyMap
    /\ axis_nplants \in 1..MaxPlants
    /\ cohort_cardinalities = EmptyMap
    /\ axis = <<>>
    /\ axis_pc = "run"

IdleAxis ==
    /\ df = EmptyMap
    /\ axis_nplants = 0
    /\ cohort_cardinalities = EmptyMap
    /\ axis = <<>>
    /\ axis_pc = "idle"

\* One cohort c through lines 53-71.
AxisCohort ==
    /\ axis_pc = "run"
    /\ \E c \in CohortIds \ DOMAIN df, ta \in 0..MaxTaNum, nff \in NffInputs,
          jp \in JointInputs :
          /\ JointUsable(jp)
          /\ LET v == Round(ta * axis_nplants, FracDen)
                 modal_proba == Modalities(nff, FracDen)
             IN  \E sm \in SortedP(modal_proba), sa \in SortedP(jp) :
                    LET rm == Cardinalities(modal_proba, v, sm)
                        ra == Cardinalities(jp, SumValues(rm.card), sa)
                    IN  \E om \in Orders(DOMAIN rm.card), oa \in Orders(DOMAIN ra.card) :
                           LET cohort_mods == FlatList(rm.card, om)
                               cohort_ax == FlatList(ra.card, oa)
                               zipped == Zip(cohort_mods, cohort_ax)
                               rows == [i \in 1..Len(zipped) |-> <<c, zipped[i][1], zipped[i][2]>>]
                           IN  /\ df' = [k \in DOMAIN df \cup {c} |->
                                           IF k = c THEN [total_axis |-> ta, nff |-> nff] ELSE df[k]]
                               /\ cohort_cardinalities' =
                                      [k \in DOMAIN df \cup {c} |->
                                           IF k = c THEN v ELSE cohort_cardinalities[k]]
                               /\ axis' = axis \o rows
                               /\ axis_pc' = IF rm.err \/ ra.err THEN "error" ELSE "run"
    /\ UNCHANGED axis_nplants
    /\ UNCHANGED notAxis

\* A cohort without joint probabilities (KeyError, line 67) or whose joint
\* probabilities sum to zero (ZeroDivisionError, line 64).
AxisCohortFails ==
    /\ axis_pc = "run"
    /\ \E c \in CohortIds \ DOMAIN df, jp \in JointInputs :
          /\ ~JointUsable(jp)
          /\ axis_pc' = "error"
    /\ UNCHANGED <<df, axis_nplants, cohort_cardinalities, axis>>
    /\ UNCHANGED notAxis

\* return flat_list(axis_list)
AxisReturn ==
    /\ axis_pc = "run"
    /\ axis_pc' = "done"
    /\ UNCHANGED <<df, axis_nplants, cohort_cardinalities, axis>>
    /\ UNCHANGED notAxis

NextAxis == AxisCohort \/ AxisCohortFails \/ AxisReturn

(***************************************************************************)
(* plant_list(axis, nplants).  An axis is (cohort, modality, name); a name *)
(* is the sequence of its dot-separated parts, '' is the empty sequence.   *)
(* reduce(_update, axis, plants) is one Update per axis of the list; the   *)
(* axis is drawn when its turn comes.                                      *)
(***************************************************************************)
AxisNames == UNION {[1..d -> 1..MaxTok] : d \in 1..MaxDepth}

\* axe[:-1], the (cohort, modality) stored for an axis
AxisPayloads == {<<1, 10>>, <<2, 9>>}

\* '.'.join(axe.rsplit('.')[:-1])
_parent(axe) == SubSeq(axe, 1, Len(axe) - 1)

\* filter(lambda x: (axe_name not in x) and (_parent(axe_name) in x or
\*                   _parent(axe_name) == ''), plantlist)
\* (the filter without its parent condition, which C3 tells apart)
CandidatesAnyPlant(axe_name, plantlist) ==
    {i \in DOMAIN plantlist : axe_name \notin DOMAIN plantlist[i]}

Candidates(axe_name, plantlist) ==
    {i \in DOMAIN plantlist :
        /\ axe_name \notin DOMAIN plantlist[i]
        /\ (_parent(axe_name) \in DOMAIN plantlist[i] \/ _parent(axe_name) = <<>>)}

InitPlant ==
    /\ \E np \in 1..MaxPlants : plants = [i \in 1..np |-> EmptyMap]
    /\ placed = 0
    /\ plant_pc = "reduce"

IdlePlant ==
    /\ plants = <<>>
    /\ placed = 0
    /\ plant_pc = "idle"

\* _update(plantlist, axe) with the plant random.sample draws
Update ==
    /\ plant_pc = "reduce"
    /\ placed < MaxAxisList
    /\ \E name \in AxisNames, payload \in AxisPayloads :
          \E i \in Candidates(name, plants) :
             plants' = [plants EXCEPT ![i] =
                           [a \in DOMAIN plants[i] \cup {name} |->
                               IF a = name THEN payload ELSE plants[i][a]]]
    /\ placed' = placed + 1
    /\ UNCHANGED plant_pc
    /\ UNCHANGED notPlant

\* random.sample(candidates, 1) of an empty list raises ValueError
UpdateFails ==
    /\ plant_pc = "reduce"
    /\ placed < MaxAxisList
    /\ \E name \in AxisNames : Candidates(name, plants) = {}
    /\ plant_pc' = "error"
    /\ UNCHANGED <<plants, placed>>
    /\ UNCHANGED notPlant

\* return plants
PlantReturn ==
    /\ plant_pc = "reduce"
    /\ plant_pc' = "done"
    /\ UNCHANGED <<plants, placed>>
    /\ UNCHANGED notPlant

NextPlant == Update \/ UpdateFails \/ PlantReturn


(***************************************************************************)
(* decide_child_cohorts(decide_child_cohort_probabilities,                 *)
(*                      parent_cohort_index=-1, first_child_delay=2).      *)
(* The recursion is an explicit stack of frames, the top frame last.  A    *)
(* frame is "new" (called, line 59 not yet run), "main" (in the main-stem  *)
(* branch, waiting for the call of line 63) or "loop" (in the for loop of  *)
(* line 67, todo the keys not yet visited).  Every callee's list is        *)
(* appended to its caller's right after the caller's own append, so the    *)
(* lists are kept as the one list child_cohort_numbers, in append order.   *)
(* considered records every (parent, cohort) whose probability was         *)
(* compared with a random draw (line 70).  iteritems() visits the keys in  *)
(* the order of the dict, the same at every level; the model takes the     *)
(* ascending one.                                                          *)
(***************************************************************************)
DefaultParent == -1
DefaultDelay == 2

\* first_possible_cohort_number = parent_cohort_index + first_child_delay
FirstPossible(frame) == frame.parent + frame.delay

\* if first_possible_cohort_number == 1
\* (a call without the main-stem branch, which C4 tells apart)
IsMainStemNever(first_possible_cohort_number) == FALSE

IsMainStem(first_possible_cohort_number) == first_possible_cohort_number = 1

\* The recursive calls of lines 63 and 72 pass no first_child_delay.
Callee(cohort_number) == [parent |-> cohort_number, delay |-> DefaultDelay, st |-> "new", todo |-> {}]

Top == stack[Len(stack)]

\* the next item of the for loop of the top frame
NextItem == CHOOSE k \in Top.todo : \A j \in Top.todo : k <= j

ReplaceTop(frame) == [stack EXCEPT ![Len(stack)] = frame]

\* The probabilities of the model: 0, 1/PScale and 1, so that a cohort is
\* kept by the draw 0 only, by some draws, or by every draw.
CohortProbabilityInputs ==
    UNION {[K -> {0, 1, PScale}] : K \in SUBSET (1..MaxCohortIdx)}

InitCohort ==
    /\ decide_child_cohort_probabilities \in CohortProbabilityInputs
    /\ parent_cohort_index \in DefaultParent..MaxParent
    /\ first_child_delay \in 1..MaxDelay
    /\ stack = <<>>
    /\ child_cohort_numbers = <<>>
    /\ considered = {}
    /\ cohort_pc = "call"

IdleCohort ==
    /\ decide_child_cohort_probabilities = EmptyMap
    /\ parent_cohort_index = 0
    /\ first_child_delay = 0
    /\ stack = <<>>
    /\ child_cohort_numbers = <<>>
    /\ considered = {}
    /\ cohort_pc = "idle"

cohortInputs == <<decide_child_cohort_probabilities, parent_cohort_index, first_child_delay>>

\* The caller's call.
CohortCall ==
    /\ cohort_pc = "call"
    /\ stack' = <<[parent |-> parent_cohort_index, delay |-> first_child_delay,
                   st |-> "new", todo |-> {}]>>
    /\ cohort_pc' = "run"
    /\ UNCHANGED <<cohortInputs, child_cohort_numbers, considered>>
    /\ UNCHANGED notCohort

\* Lines 60-64: the main stem is added and the call recurses with it.
EnterMainStem ==
    /\ cohort_pc = "run"
    /\ Top.st = "new"
    /\ IsMainStem(FirstPossible(Top))
    /\ child_cohort_numbers' = Append(child_cohort_numbers, FirstPossible(Top))
    /\ stack' = Append(ReplaceTop([Top EXCEPT !.st = "main"]), Callee(FirstPossible(Top)))
    /\ UNCHANGED <<cohortInputs, considered, cohort_pc>>
    /\ UNCHANGED notCohort

\* Lines 65-67: the loop over the items of the dict starts.
EnterLoop ==
    /\ cohort_pc = "run"
    /\ Top.st = "new"
    /\ ~IsMainStem(FirstPossible(Top))
    /\ stack' = ReplaceTop([Top EXCEPT !.st = "loop",
                                       !.todo = DOMAIN decide_child_cohort_probabilities])
    /\ UNCHANGED <<cohortInputs, child_cohort_numbers, considered, cohort_pc>>
    /\ UNCHANGED notCohort

\* Line 69 false: the cohort is below the first possible one.
LoopSkip ==
    /\ cohort_pc = "run"
    /\ Top.st = "loop"
    /\ Top.todo # {}
    /\ LET cohort_number == NextItem IN
          /\ ~(cohort_number >= FirstPossible(Top))
          /\ stack' = ReplaceTop([Top EXCEPT !.todo = @ \ {cohort_number}])
    /\ UNCHANGED <<cohortInputs, child_cohort_numbers, considered, cohort_pc>>
    /\ UNCHANGED notCohort

\* Lines 69-73 with the draw of random.random(), a value of [0, 1).
LoopDraw ==
    /\ cohort_pc = "run"
    /\ Top.st = "loop"
    /\ Top.todo # {}
    /\ \E draw \in 0..(PScale - 1) : LET cohort_number == NextItem IN
          /\ cohort_number >= FirstPossible(Top)
          /\ considered' = considered \cup {<<Top.parent, cohort_number>>}
          /\ IF decide_child_cohort_probabilities[cohort_number] >= draw
             THEN /\ child_cohort_numbers' = Append(child_cohort_numbers, cohort_number)
                  /\ stack' = Append(ReplaceTop([Top EXCEPT !.todo = @ \ {cohort_number}]),
                                     Callee(cohort_number))
             ELSE /\ child_cohort_numbers' = child_cohort_numbers
                  /\ stack' = ReplaceTop([Top EXCEPT !.todo = @ \ {cohort_number}])
    /\ UNCHANGED <<cohortInputs, cohort_pc>>
    /\ UNCHANGED notCohort

\* Line 74: the frame returns; the top call's return ends the run.
CohortReturn ==
    /\ cohort_pc = "run"
    /\ Top.st = "main" \/ (Top.st = "loop" /\ Top.todo = {})
    /\ stack' = SubSeq(stack, 1, Len(stack) - 1)
    /\ cohort_pc' = IF Len(stack) = 1 THEN "done" ELSE "run"
    /\ UNCHANGED <<cohortInputs, child_cohort_numbers, considered>>
    /\ UNCHANGED notCohort

NextCohort == CohortCall \/ EnterMainStem \/ EnterLoop \/ LoopSkip \/ LoopDraw \/ CohortReturn


(***************************************************************************)
(* decide_time_of_death(max_axes_number, min_axes_number, TT_em_phytomer1, *)
(*                      TT_bolting, TT_flowering).                         *)
(* TT_bolting and TT_flowering hold the numerator k of the time k/TimeDen; *)
(* tt and the death times are whole thermal times.  Row numbers are the    *)
(* list indices of Python, from 0; entry i of a Python list is entry i + 1 *)
(* of the sequence that models it.                                         *)
(***************************************************************************)
\* np.nan, the death time of an axis that never stops
NaN == -1

\* int(TT) of the time num/TimeDen
IntTime(num) == IntOf(num, TimeDen)

\* list.sort() of a list of pairs without duplicates: ascending, by the
\* first component and then the second
PairLess(a, b) == a[1] < b[1] \/ (a[1] = b[1] /\ a[2] < b[2])

RECURSIVE SortPairs(_)
SortPairs(S) ==
    IF S = {} THEN <<>>
    ELSE LET m == CHOOSE x \in S : \A y \in S \ {x} : PairLess(x, y)
         IN  <<m>> \o SortPairs(S \ {m})

\* zip(TT_em_phytomer1[:], range(len(TT_em_phytomer1)))
ZipWithRange(l) == {<<l[i], i - 1>> : i \in 1..Len(l)}

\* int(np.polyval(np.polyfit([TT_flowering, TT_bolting],
\*                           [min_axes_number, max_axes_number], 1), t)).
\* For TT_bolting # TT_flowering the fit is the line through the two points.
\* For TT_bolting = TT_flowering = T the system is rank deficient and
\* polyfit returns the least-squares solution of least norm of the system
\* scaled by its column norms: slope m/(2T) and intercept m/2 for the mean m
\* of the two counts, that is the line (min + max) * (t + T) / (4 * T).
SimulatedAxes(t) ==
    IF TT_bolting # TT_flowering
    THEN IntOf(max_axes_number * (TT_flowering - TT_bolting)
                   + (min_axes_number - max_axes_number) * (t * TimeDen - TT_bolting),
               TT_flowering - TT_bolting)
    ELSE IntOf((min_axes_number + max_axes_number) * (t * TimeDen + TT_bolting),
               4 * TT_bolting)

\* T_em_leaf1_tuples.pop(), k times: what is left and what was taken, in the
\* order taken
\* (pop(0) in place of pop(), which C9 tells apart)
PopFirst(tuples, k) ==
    [left |-> SubSeq(tuples, k + 1, Len(tuples)),
     taken |-> [i \in 1..k |-> tuples[i]]]

PopLast(tuples, k) ==
    [left |-> SubSeq(tuples, 1, Len(tuples) - k),
     taken |-> [i \in 1..k |-> tuples[Len(tuples) + 1 - i]]]

\* the last tt of range(int(TT_bolting), int(TT_flowering) + 1)
\* (the range without its + 1, which C2 tells apart)
LastTTShort == IntTime(TT_flowering) - 1

LastTT == IntTime(TT_flowering)

\* list.insert(i, x)
InsertAt(l, i, x) ==
    LET pos == IF i <= Len(l) THEN i ELSE Len(l)
    IN  SubSeq(l, 1, pos) \o <<x>> \o SubSeq(l, pos + 1, Len(l))

\* Lines 210-212 from row i on: np.nan is inserted at every row that has no
\* stop tuple.
RECURSIVE InsertNaNs(_, _, _, _)
InsertNaNs(l, rows, i, len) ==
    IF i >= len THEN l
    ELSE InsertNaNs(IF i \in rows THEN l ELSE InsertAt(l, i, NaN), rows, i + 1, len)

\* Lines 207-213: the death times by row number.
StopList(stop_tuples, len) ==
    LET sorted == SortPairs({stop_tuples[i] : i \in 1..Len(stop_tuples)})
        rows == {sorted[i][1] : i \in 1..Len(sorted)}
        times == [i \in 1..Len(sorted) |-> sorted[i][2]]
    IN  InsertNaNs(times, rows, 0, len)

\* The asserts of lines 187-189.
DeathPreconditions ==
    /\ max_axes_number >= 0 /\ min_axes_number >= 0 /\ TT_bolting >= 0 /\ TT_flowering >= 0
    /\ TT_bolting <= TT_flowering
    /\ min_axes_number <= max_axes_number

\* polyfit of two points of abscissa 0 divides the column of abscissas by
\* its norm 0: no fit comes back.
PolyfitFails == TT_bolting = TT_flowering /\ TT_bolting = 0

EmergenceInputs == UNION {[1..l -> 0..MaxEm] : l \in 0..MaxEmLen}

InitDeath ==
    /\ max_axes_number \in 0..MaxAxes
    /\ min_axes_number \in 0..MaxAxes
    /\ TT_em_phytomer1 \in EmergenceInputs
    /\ TT_bolting \in 0..MaxTime
    /\ TT_flowering \in 0..MaxTime
    /\ tt = 0
    /\ remaining_axes_number = 0
    /\ T_em_leaf1_tuples = <<>>
    /\ T_stop_axis_tuples = <<>>
    /\ TT_stop_axis_list = <<>>
    /\ death_pc = "call"

IdleDeath ==
    /\ max_axes_number = 0
    /\ min_axes_number = 0
    /\ TT_em_phytomer1 = <<>>
    /\ TT_bolting = 0
    /\ TT_flowering = 0
    /\ tt = 0
    /\ remaining_axes_number = 0
    /\ T_em_leaf1_tuples = <<>>
    /\ T_stop_axis_tuples = <<>>
    /\ TT_stop_axis_list = <<>>
    /\ death_pc = "idle"

deathInputs == <<max_axes_number, min_axes_number, TT_em_phytomer1, TT_bolting, TT_flowering>>

\* An assert of lines 187-189 fails, or polyfit does.
DeathRejected ==
    /\ death_pc = "call"
    /\ ~DeathPreconditions \/ PolyfitFails
    /\ death_pc' = "error"
    /\ UNCHANGED <<deathInputs, tt, remaining_axes_number, T_em_leaf1_tuples,
                   T_stop_axis_tuples, TT_stop_axis_list>>
    /\ UNCHANGED notDeath

\* Lines 187-197: the fit, the sorted tuples, the first tt of the range.
DeathStart ==
    /\ death_pc = "call"
    /\ DeathPreconditions /\ ~PolyfitFails
    /\ remaining_axes_number' = max_axes_number
    /\ T_em_leaf1_tuples' = SortPairs(ZipWithRange(TT_em_phytomer1))
    /\ T_stop_axis_tuples' = <<>>
    /\ tt' = IntTime(TT_bolting)
    /\ death_pc' = IF IntTime(TT_bolting) <= LastTT THEN "loop" ELSE "sort"
    /\ UNCHANGED <<deathInputs, TT_stop_axis_list>>
    /\ UNCHANGED notDeath

\* axes_to_delete_number of lines 198-199 at the current tt
AxesToDelete ==
    LET d == remaining_axes_number - SimulatedAxes(tt) IN IF d > 0 THEN d ELSE 0

\* One iteration of the for loop, lines 198-206.
DeathStep ==
    /\ death_pc = "loop"
    /\ AxesToDelete <= Len(T_em_leaf1_tuples)
    /\ LET popped == PopLast(T_em_leaf1_tuples, AxesToDelete)
       IN  /\ T_em_leaf1_tuples' = popped.left
           /\ T_stop_axis_tuples' = T_stop_axis_tuples \o
                  [i \in 1..AxesToDelete |-> <<popped.taken[i][2], tt>>]
    /\ remaining_axes_number' = remaining_axes_number - AxesToDelete
    /\ IF remaining_axes_number - AxesToDelete = 0 \/ tt + 1 > LastTT
       THEN death_pc' = "sort" /\ tt' = tt
       ELSE death_pc' = "loop" /\ tt' = tt + 1
    /\ UNCHANGED <<deathInputs, TT_stop_axis_list>>
    /\ UNCHANGED notDeath

\* pop() of the emptied list raises IndexError.
DeathPopFails ==
    /\ death_pc = "loop"
    /\ AxesToDelete > Len(T_em_leaf1_tuples)
    /\ death_pc' = "error"
    /\ UNCHANGED <<deathInputs, tt, remaining_axes_number, T_em_leaf1_tuples,
                   T_stop_axis_tuples, TT_stop_axis_list>>
    /\ UNCHANGED notDeath

\* Lines 207-213.
DeathFinish ==
    /\ death_pc = "sort"
    /\ TT_stop_axis_list' = StopList(T_stop_axis_tuples, Len(TT_em_phytomer1))
    /\ death_pc' = "done"
    /\ UNCHANGED <<deathInputs, tt, remaining_axes_number, T_em_leaf1_tuples,
                   T_stop_axis_tuples>>
    /\ UNCHANGED notDeath

NextDeath == DeathRejected \/ DeathStart \/ DeathStep \/ DeathPopFails \/ DeathFinish


(***************************************************************************)
(* fit_poly(x_meas_array, y_meas_array, fixed_coefs, a_starting_estimate). *)
(* meas is the sequence of the measured points <<x, y>>.  leastsq is       *)
(* modelled by what it computes for a residual linear in a, the exact      *)
(* least-squares coefficient, as a rational <<numerator, denominator>>.    *)
(***************************************************************************)
RECURSIVE Pow(_, _)
Pow(x, k) == IF k = 0 THEN 1 ELSE x * Pow(x, k - 1)

\* np.poly1d(fixed_coefs)(x): the fixed part of the polynomial
RECURSIVE FixedPart(_, _)
FixedPart(coefs, x) ==
    IF coefs = <<>> THEN 0
    ELSE Head(coefs) * Pow(x, Len(coefs) - 1) + FixedPart(Tail(coefs), x)

RECURSIVE SumSeq(_)
SumSeq(l) == IF l = <<>> THEN 0 ELSE Head(l) + SumSeq(Tail(l))

\* The a minimising sum((y - (a * x^L + fixed(x)))^2), L = len(fixed_coefs);
\* with no x^L different from 0 the residuals do not depend on a and the
\* starting estimate comes back.
BestFit ==
    LET L == Len(fixed_coefs)
        num == SumSeq([i \in 1..Len(meas) |->
                   Pow(meas[i][1], L) * (meas[i][2] - FixedPart(fixed_coefs, meas[i][1]))])
        den == SumSeq([i \in 1..Len(meas) |-> Pow(meas[i][1], 2 * L)])
    IN  IF den = 0 THEN <<a_starting_estimate, 1>> ELSE <<num, den>>

\* chisq = (infodict['fvec']**2).sum() for the coefficient a
Chisq(a) ==
    <<SumSeq([i \in 1..Len(meas) |->
          Pow(a[2] * (meas[i][2] - FixedPart(fixed_coefs, meas[i][1]))
                  - a[1] * Pow(meas[i][1], Len(fixed_coefs)), 2)]),
      a[2] * a[2]>>

\* leastsq raises TypeError when there are fewer residuals than parameters:
\* "Improper input: N=1 must not exceed M=0"
LeastsqRejects == Len(meas) < 1

\* dof = len(x_meas_array) - 1
Dof == Len(meas) - 1

\* rmse = np.sqrt(chisq / dof), kept as its square chisq / dof; dividing a
\* numpy float by 0 warns and gives inf or nan, it does not raise
\* (denominator 0 below).
RmseSquared(chisq) == <<chisq[1], chisq[2] * Dof>>

MeasInputs == UNION {[1..l -> (0..MaxMeas) \X (0..MaxMeas)] : l \in 0..MaxSamples}

FixedCoefsInputs == UNION {[1..l -> 0..1] : l \in 0..MaxFixed}

NoResult == [kind |-> "none", a |-> <<0, 1>>, rmse2 |-> <<0, 1>>]

InitFit ==
    /\ meas \in MeasInputs
    /\ fixed_coefs \in FixedCoefsInputs
    /\ a_starting_estimate \in 0..1
    /\ fit_result = NoResult
    /\ fit_pc = "call"

IdleFit ==
    /\ meas = <<>>
    /\ fixed_coefs = <<>>
    /\ a_starting_estimate = 0
    /\ fit_result = NoResult
    /\ fit_pc = "idle"

\* Line 265 raises.
FitRaises ==
    /\ fit_pc = "call"
    /\ LeastsqRejects
    /\ fit_result' = [NoResult EXCEPT !.kind = "error"]
    /\ fit_pc' = "done"
    /\ UNCHANGED <<meas, fixed_coefs, a_starting_estimate>>
    /\ UNCHANGED notFit

\* Lines 265-270: return p[0], rmse
FitReturns ==
    /\ fit_pc = "call"
    /\ ~LeastsqRejects
    /\ fit_result' = [kind |-> "pair", a |-> BestFit, rmse2 |-> RmseSquared(Chisq(BestFit))]
    /\ fit_pc' = "done"
    /\ UNCHANGED <<meas, fixed_coefs, a_starting_estimate>>
    /\ UNCHANGED notFit

NextFit == FitRaises \/ FitReturns

(***************************************************************************)
(* The specifications, one for each routine.                               *)
(***************************************************************************)
InitCardSpec == InitCard /\ IdleAxis /\ IdlePlant /\ IdleCohort /\ IdleDeath /\ IdleFit

SpecCard == InitCardSpec /\ [][NextCard]_vars

InitAxisSpec == IdleCard /\ InitAxis /\ IdlePlant /\ IdleCohort /\ IdleDeath /\ IdleFit

SpecAxis == InitAxisSpec /\ [][NextAxis]_vars

InitPlantSpec == IdleCard /\ IdleAxis /\ InitPlant /\ IdleCohort /\ IdleDeath /\ IdleFit

SpecPlant == InitPlantSpec /\ [][NextPlant]_vars

InitCohortSpec == IdleCard /\ IdleAxis /\ IdlePlant /\ InitCohort /\ IdleDeath /\ IdleFit

SpecCohort == InitCohortSpec /\ [][NextCohort]_vars

InitDeathSpec == IdleCard /\ IdleAxis /\ IdlePlant /\ IdleCohort /\ InitDeath /\ IdleFit

SpecDeath == InitDeathSpec /\ [][NextDeath]_vars

InitFitSpec == IdleCard /\ IdleAxis /\ IdlePlant /\ IdleCohort /\ IdleDeath /\ InitFit

SpecFit == InitFitSpec /\ [][NextFit]_vars

(***************************************************************************)
(* cardinalities: C1, C8 (SpecCard).                                       *)
(***************************************************************************)
\* int(proportion * n) of category k and the units the floors leave over,
\* stated from the inputs
ShareFloor(k) == (proba[k] * n) \div SumValues(proba)

Leftover == n - SumValues([k \in DOMAIN proba |-> ShareFloor(k)])

\* the count the result gives category k (a category left out has none)
CountOf(k) == IF k \in DOMAIN card THEN card[k] ELSE 0

\* C1: for every n >= 0 and every proportions summing to 1, the call does
\* not fail for lack of a category to receive a leftover unit, the counts
\* it returns sum to n, and for n = 0 the result is the empty mapping.
C1_CountsSumToN ==
    /\ card_pc # "error"
    /\ card_pc = "done" =>
          /\ SumValues(card) = n
          /\ n = 0 => DOMAIN card = {}

\* C1's case: a call that had two leftover units to give and dropped a
\* category that ended at zero.
C1_Witness ==
    /\ card_pc = "done"
    /\ Leftover >= 2
    /\ Cardinality(DOMAIN card) < Cardinality(DOMAIN proba)

\* The fractional remainder of proportion * n, in units of 1/sum(weights),
\* and the categories a largest-remainder allocation gives a unit to.
Remainder(k) == (proba[k] * n) % SumValues(proba)

LargestRemainders ==
    {k \in DOMAIN proba :
        Cardinality({j \in DOMAIN proba : Remainder(j) > Remainder(k)}) < Leftover}

\* C8 as claimed: ties between remainders aside, the result is the
\* largest-remainder allocation.
C8_LargestRemainder ==
    (card_pc = "done" /\ Cardinality(LargestRemainders) = Leftover) =>
        \A k \in DOMAIN proba :
            CountOf(k) = ShareFloor(k) + (IF k \in LargestRemainders THEN 1 ELSE 0)

\* C8 as amended: every category gets its floor or its floor plus one, as
\* many categories get the extra unit as there are leftover units, and no
\* category that gets it has a smaller proportion than one that does not.
C8_LargestProportion ==
    card_pc = "done" =>
        LET extra == {k \in DOMAIN proba : CountOf(k) = ShareFloor(k) + 1}
        IN  /\ \A k \in DOMAIN proba : CountOf(k) \in {ShareFloor(k), ShareFloor(k) + 1}
            /\ Cardinality(extra) = Leftover
            /\ \A j \in extra, k \in (DOMAIN proba) \ extra : proba[j] >= proba[k]

\* C8's case: a leftover unit went to the category of the largest
\* proportion although another category has the larger remainder.
C8_Witness ==
    /\ card_pc = "done"
    /\ Leftover = 1
    /\ \E j, k \in DOMAIN proba :
          /\ CountOf(j) = ShareFloor(j) + 1
          /\ CountOf(k) = ShareFloor(k)
          /\ proba[j] > proba[k]
          /\ Remainder(j) < Remainder(k)

(***************************************************************************)
(* axis_list: C7 (SpecAxis).                                               *)
(***************************************************************************)
\* the number of tuples of axis that carry cohort c
TuplesOf(c) == Cardinality({i \in 1..Len(axis) : axis[i][1] = c})

\* k is total_axis * nplants rounded to the nearest whole number, halves up
IsRounded(k, c) ==
    LET num == df[c].total_axis * axis_nplants
    IN  2 * FracDen * k <= 2 * num + FracDen /\ 2 * num + FracDen < 2 * FracDen * (k + 1)

\* C7: the tuples returned are as many as the rounded counts of the cohorts
\* together, and as many carry a cohort as its rounded count.
C7_AxisCounts ==
    axis_pc = "done" =>
        /\ \A c \in DOMAIN df : IsRounded(TuplesOf(c), c)
        /\ \A i \in 1..Len(axis) : axis[i][1] \in DOMAIN df
        /\ Len(axis) = SumValues([c \in DOMAIN df |-> TuplesOf(c)])

\* C7's case: two cohorts with axes, one of them with a count that had to
\* be rounded.
C7_Witness ==
    /\ axis_pc = "done"
    /\ DOMAIN df = CohortIds
    /\ \A c \in DOMAIN df : TuplesOf(c) >= 1
    /\ \E c \in DOMAIN df : (df[c].total_axis * axis_nplants) % FracDen # 0
    /\ \E i, j \in 1..Len(axis) : axis[i][1] = axis[j][1] /\ axis[i][2] # axis[j][2]

(***************************************************************************)
(* plant_list: C3 (SpecPlant).                                             *)
(***************************************************************************)
\* b is the name a without its last part
IsParentOf(b, a) == Len(b) = Len(a) - 1 /\ \A i \in 1..Len(b) : b[i] = a[i]

\* C3: every axis stored in a plant is a main stem (its parent is the empty
\* name) or has its parent stored in the same plant.
C3_ParentInSamePlant ==
    \A i \in DOMAIN plants : \A a \in DOMAIN plants[i] :
        Len(a) = 1 \/ \E b \in DOMAIN plants[i] : IsParentOf(b, a)

\* C3's case: the returned plants hold a tiller whose parent is stored in
\* one plant only, so a draw among all the plants could have misplaced it.
C3_Witness ==
    /\ plant_pc = "done"
    /\ \E i, j \in DOMAIN plants : \E a \in DOMAIN plants[i] :
          /\ Len(a) = 2
          /\ i # j
          /\ a \notin DOMAIN plants[j]
          /\ \A b \in DOMAIN plants[j] : ~IsParentOf(b, a)

(***************************************************************************)
(* decide_child_cohorts: C4, C10 (SpecCohort).                             *)
(***************************************************************************)
Included == {child_cohort_numbers[i] : i \in 1..Len(child_cohort_numbers)}

\* C4: the call with parent_cohort_index = -1 and first_child_delay = 2
\* returns a list that holds cohort 1.
C4_MainStemIncluded ==
    (cohort_pc = "done" /\ parent_cohort_index = -1 /\ first_child_delay = 2) =>
        1 \in Included

\* C4's case: such a call has returned, for probabilities under which a
\* draw can leave cohort 1 out, with another cohort beside the main stem.
C4_Witness ==
    /\ cohort_pc = "done" /\ parent_cohort_index = -1 /\ first_child_delay = 2
    /\ 1 \in DOMAIN decide_child_cohort_probabilities
    /\ decide_child_cohort_probabilities[1] = 0
    /\ Len(child_cohort_numbers) >= 2

\* C10 as claimed: with d the first_child_delay of the top call, a cohort
\* considered as a child of an included cohort p is at least p + d, and once
\* the call has returned every cohort of the mapping that is at least p + d
\* has been considered for p.
C10_SameDelayEveryLevel ==
    /\ \A pc \in considered :
          pc[1] \in Included => pc[2] >= pc[1] + first_child_delay
    /\ cohort_pc = "done" =>
          \A p \in Included : \A c \in DOMAIN decide_child_cohort_probabilities :
              c >= p + first_child_delay => <<p, c>> \in considered

(***************************************************************************)
(* decide_time_of_death: C2, C5, C9 (SpecDeath).                           *)
(***************************************************************************)
Rows == 1..Len(TT_stop_axis_list)

Resolved == {i \in Rows : TT_stop_axis_list[i] # NaN}

WholeTime(num) == num % TimeDen = 0

\* the preconditions of C2
C2_Case ==
    /\ Len(TT_em_phytomer1) = max_axes_number
    /\ min_axes_number <= max_axes_number
    /\ TT_bolting < TT_flowering
    /\ WholeTime(TT_bolting) /\ WholeTime(TT_flowering)

C5_DeathWithinWindow ==
    \A i \in Resolved :
        /\ TT_bolting <= TT_stop_axis_list[i] * TimeDen
        /\ TT_stop_axis_list[i] * TimeDen <= TT_flowering

\* C9: the axes that die emerged no earlier than those that do not (at
\* equal emergence the later row dies), of two that die the one that
\* emerged later does not die later, every axis taken so far emerged no
\* earlier than one still alive, and the death time of a stop tuple is
\* reported at the row of the tuple, the other rows being unresolved.
C9_LastEmergedDiesFirst ==
    /\ \A s \in 1..Len(T_stop_axis_tuples), u \in 1..Len(T_em_leaf1_tuples) :
          TT_em_phytomer1[T_stop_axis_tuples[s][1] + 1] >= T_em_leaf1_tuples[u][1]
    /\ death_pc = "done" =>
          /\ Len(TT_stop_axis_list) = Len(TT_em_phytomer1)
          /\ \A i \in Resolved, j \in Rows \ Resolved :
                /\ TT_em_phytomer1[i] >= TT_em_phytomer1[j]
                /\ TT_em_phytomer1[i] = TT_em_phytomer1[j] => i > j
          /\ \A i, j \in Resolved :
                TT_em_phytomer1[i] > TT_em_phytomer1[j]
                    => TT_stop_axis_list[i] <= TT_stop_axis_list[j]
          /\ \A s \in 1..Len(T_stop_axis_tuples) :
                TT_stop_axis_list[T_stop_axis_tuples[s][1] + 1] = T_stop_axis_tuples[s][2]
          /\ \A i \in Resolved :
                \E s \in 1..Len(T_stop_axis_tuples) : T_stop_axis_tuples[s][1] + 1 = i

\* C9's case: axes of different emergence times died at different times,
\* and an unresolved row precedes a resolved one.
C9_Witness ==
    /\ death_pc = "done"
    /\ \E i, j \in Resolved :
          /\ TT_em_phytomer1[i] > TT_em_phytomer1[j]
          /\ TT_stop_axis_list[i] < TT_stop_axis_list[j]
    /\ \E i \in Rows \ Resolved, j \in Resolved : i < j

(***************************************************************************)
(* fit_poly: C6 (SpecFit).                                                 *)
(***************************************************************************)
\* C6 as claimed: with fewer than 2 samples the call ends in an error and
\* returns no (coefficient, RMSE) pair.
C6_FewSamplesRaise ==
    (fit_pc = "done" /\ Len(meas) < 2) => fit_result.kind = "error"

============================================================================
